---- MODULE Spec2Model ----
(***************************************************************************)
(* Model of the pollers of workload-automation.                            *)
(*                                                                         *)
(*   cpu_load_poller.c : main(), term(), count_cpus(), parse_cpu_stats(),  *)
(*                       get_total_time(), get_idle_time(),                *)
(*                       calculate_cpu_load(), write_trace_marker()        *)
(*                       (Spec, FairSpec, SpecCalc, SpecParse)             *)
(*   proc_stat_poller.c: main(), count_cpus(), parse_cpu_stats()           *)
(*                       (SpecStat, SpecParse)                             *)
(*   poller.c          : main() (SpecPoll)                                 *)
(*                                                                         *)
(* A line of the counter file is a record [tag, id, nums]:                 *)
(*   tag  the leading letters of the line ("cpu", or another word),        *)
(*   id   the integer that follows the tag without a blank (cpu0, cpu1),   *)
(*        or NoId when a blank follows the tag (the aggregate line),       *)
(*   nums the blank-separated unsigned integers after that.                *)
(* A double is an exact fraction <<n, d>> (the value n/d); a cell printed  *)
(* with "%.2f" is the number of hundredths it rounds to.                   *)
(***************************************************************************)
EXTENDS Integers, Sequences, FiniteSets, TLC

VARIABLES
    pc,                 \* position of main()
    done,               \* volatile sig_atomic_t done
    handler,            \* TRUE once sigaction(SIGTERM, term) has been called
    show_help,          \* option -h
    should_write_marker,\* option -m
    first_reading,      \* int first_reading
    stat,               \* what /proc/stat showed at the latest read of it
    stat_file,          \* the FILE handle: "none", "open", "closed"
    fpos,               \* read position of stat_file, in lines
    num_cpus,           \* int num_cpus
    cpu_data,           \* cpu_data_t *cpu_data: sequence of [current, previous]
    heap,               \* the calloc'ed block: "none", "allocated", "freed"
    i,                  \* loop index of the load loop
    current_time,       \* struct timespec current_time (tick of capture)
    header,             \* header line as printed (sequence of column names)
    row,                \* cells of the row being printed (no newline yet)
    last_row,           \* last row ended with its newline
    rows,               \* number of rows ended with their newline
    pending,            \* complete lines in the stdio buffer, not yet flushed
    markers,            \* successful writes of the trace marker
    errlog,             \* "ERROR writing trace marker" lines on stderr
    exit_status,        \* NoStatus while running or when killed by the signal
    after_latch,        \* rows ended since done was set
    calc,               \* last return of calculate_cpu_load (SpecCalc)
    parsed,             \* return value of the last parse_cpu_stats call
    killed_at,          \* where main() was when SIGTERM ended it by default ("": it has not)
    samples,            \* calls of parse_cpu_stats made so far
    unchanged,          \* the latest read saw what the read before it saw
    writes,             \* indices of the array the latest parse pass stored through
    include_per_core,   \* proc_stat_poller: option -c
    aggregate_stats,    \* proc_stat_poller: cpu_stats_t aggregate_stats
    ps_cpu_data,        \* proc_stat_poller: cpu_stats_t *cpu_data
    timestamp,          \* proc_stat_poller: char timestamp[64]
    buf,                \* poller: char buf[1024], as the string it holds
    files_to_poll,      \* poller: int files_to_poll[argc-optind]
    last_read,          \* poller: the bytes the latest read() delivered
    labelCount          \* poller: int labelCount

vars == <<pc, done, handler, show_help, should_write_marker, first_reading,
          stat, stat_file, fpos, num_cpus, cpu_data, heap, i, current_time,
          header, row, last_row, rows, pending, markers, errlog, exit_status,
          after_latch, calc, parsed, killed_at, samples, unchanged, writes,
          include_per_core, aggregate_stats, ps_cpu_data, timestamp, buf,
          files_to_poll, last_read, labelCount>>

\* what proc_stat_poller alone keeps
ps_vars == <<include_per_core, aggregate_stats, ps_cpu_data, timestamp>>

\* what the generic poller alone keeps
gp_vars == <<buf, files_to_poll, last_read, labelCount>>

----------------------------------------------------------------------------
(* Bounds of the model *)

\* width in bits of the model's unsigned long long (64 in the build)
WordBits == 8

\* sampling iterations the model follows
MaxTicks == 2
MaxCpus == 3
MaxFiles == 2
BufSize == 4

Modulus == 2 ^ WordBits

NoId == -1
NoStatus == -1

----------------------------------------------------------------------------
(* cpu_stats_t *)

Fields == <<"user", "nice", "system", "idle", "iowait",
            "irq", "softirq", "steal", "guest", "guest_nice">>

FieldSet == {Fields[k] : k \in 1..Len(Fields)}

\* calloc'ed cpu_stats_t
ZeroStats == [f \in FieldSet |-> 0]

\* the cpu_stats_t whose fields, in declaration order, are the sequence s
StatsOf(s) == [f \in FieldSet |-> s[CHOOSE k \in 1..Len(Fields) : Fields[k] = f]]

cpu_data_t == [current |-> ZeroStats, previous |-> ZeroStats]

----------------------------------------------------------------------------
(* Arithmetic *)

Min(a, b) == IF a < b THEN a ELSE b

\* unsigned long long arithmetic
UAdd(a, b) == (a + b) % Modulus
USub(a, b) == (a - b + Modulus) % Modulus

\* variant: the last counter left out of the total
get_total_time_NoGuestNice(stats) ==
    UAdd(UAdd(UAdd(UAdd(UAdd(UAdd(UAdd(UAdd(stats.user, stats.nice),
        stats.system), stats.idle), stats.iowait), stats.irq), stats.softirq),
        stats.steal), stats.guest)

\* variant: the idle counter left out of the total
get_total_time_NoIdle(stats) ==
    UAdd(UAdd(UAdd(UAdd(UAdd(UAdd(UAdd(UAdd(stats.user, stats.nice),
        stats.system), stats.iowait), stats.irq), stats.softirq),
        stats.steal), stats.guest), stats.guest_nice)

get_total_time(stats) ==
    UAdd(UAdd(UAdd(UAdd(UAdd(UAdd(UAdd(UAdd(UAdd(stats.user, stats.nice),
        stats.system), stats.idle), stats.iowait), stats.irq), stats.softirq),
        stats.steal), stats.guest), stats.guest_nice)

\* variant: iowait left out of the idle time
get_idle_time_NoIowait(stats) == stats.idle

get_idle_time(stats) == UAdd(stats.idle, stats.iowait)

\* the double 0.0
Zero == <<0, 1>>

\* 100.0 * (1.0 - ((double)idle_diff / (double)total_diff))
LoadRatio(idle_diff, total_diff) == <<100 * (total_diff - idle_diff), total_diff>>

\* variant: the differences taken as previous minus current
calculate_cpu_load_Swapped(current, previous) ==
    LET total_diff == USub(get_total_time(previous), get_total_time(current))
        idle_diff  == USub(get_idle_time(previous), get_idle_time(current))
    IN  IF total_diff = 0
        THEN [load |-> Zero, divided |-> FALSE]
        ELSE [load |-> LoadRatio(idle_diff, total_diff), divided |-> TRUE]

\* variant: the guard tests idle_diff instead of total_diff
calculate_cpu_load_GuardIdle(current, previous) ==
    LET total_diff == USub(get_total_time(current), get_total_time(previous))
        idle_diff  == USub(get_idle_time(current), get_idle_time(previous))
    IN  IF idle_diff = 0
        THEN [load |-> Zero, divided |-> FALSE]
        ELSE [load |-> LoadRatio(idle_diff, total_diff), divided |-> TRUE]

\* returns the load and whether the division was executed
calculate_cpu_load(current, previous) ==
    LET total_current  == get_total_time(current)
        total_previous == get_total_time(previous)
        idle_current   == get_idle_time(current)
        idle_previous  == get_idle_time(previous)
        total_diff     == USub(total_current, total_previous)
        idle_diff      == USub(idle_current, idle_previous)
    IN  IF total_diff = 0
        THEN [load |-> Zero, divided |-> FALSE]
        ELSE [load |-> LoadRatio(idle_diff, total_diff), divided |-> TRUE]

\* printf(",%.2f", load): the hundredths the value rounds to
Fmt2(q) == (200 * q[1] + q[2]) \div (2 * q[2])

----------------------------------------------------------------------------
(* sscanf on one line *)

\* the integers the conversions after the literal "cpu" meet, in order:
\* %d skips blanks, so on a line whose tag is followed by a blank it takes
\* the first counter
Numbers(line) == IF line.id = NoId THEN line.nums ELSE <<line.id>> \o line.nums

\* sscanf(line, "cpu%d", &cpu_id): the number of conversions, EOF as -1
sscanf_cpu_id(line) ==
    IF line.tag # "cpu" THEN 0
    ELSE IF Numbers(line) = <<>> THEN -1
    ELSE 1

\* sscanf(line, "cpu%d %llu ... %llu", &cpu_id, &stats->user, ...):
\* the return value and *stats afterwards (a field is assigned as soon as
\* its conversion succeeds)
sscanf_cpu_stats(line, stats) ==
    IF line.tag # "cpu" THEN [ret |-> 0, stats |-> stats]
    ELSE IF Numbers(line) = <<>> THEN [ret |-> -1, stats |-> stats]
    ELSE LET vals == Tail(Numbers(line))
             n    == Min(Len(vals), Len(Fields))
         IN  [ret   |-> 1 + n,
              stats |-> [f \in FieldSet |->
                          LET k == CHOOSE j \in 1..Len(Fields) : Fields[j] = f
                          IN  IF k <= n THEN vals[k] ELSE stats[f]]]

----------------------------------------------------------------------------
(* count_cpus and parse_cpu_stats *)

RECURSIVE count_loop(_, _, _)
\* the while loop of count_cpus: k is the line fgets returns next
count_loop(lines, k, cpu_count) ==
    IF k > Len(lines) THEN cpu_count
    ELSE count_loop(lines, k + 1,
                    IF sscanf_cpu_id(lines[k]) = 1 THEN cpu_count + 1
                    ELSE cpu_count)

\* count_cpus(file), reading from the position the file is at
count_cpus(lines, pos) == count_loop(lines, pos + 1, 0)

RECURSIVE parse_loop(_, _, _, _, _, _)
\* the while loop of parse_cpu_stats; data is cpu_data, 1-based; w collects
\* the indices (0-based) of the elements sscanf stored a field into
parse_loop(lines, k, data, cpu_count, n, w) ==
    IF k > Len(lines)
    THEN [data |-> data, ret |-> cpu_count, pos |-> Len(lines), writes |-> w]
    ELSE IF ~(cpu_count < n)
    THEN [data |-> data, ret |-> cpu_count, pos |-> k, writes |-> w]
    ELSE LET r == sscanf_cpu_stats(lines[k], data[cpu_count + 1].current)
             d == [data EXCEPT ![cpu_count + 1].current = r.stats]
         IN  parse_loop(lines, k + 1, d,
                        IF r.ret = 11 THEN cpu_count + 1 ELSE cpu_count, n,
                        IF r.ret >= 2 THEN w \cup {cpu_count} ELSE w)

\* variant: no fseek, the loop starts where the last read left the file
parse_cpu_stats_NoSeek(lines, data, n) ==
    parse_loop(lines, Min(fpos, Len(lines)) + 1, data, 0, n, {})

\* parse_cpu_stats(file, cpu_data, num_cpus): fseek(file, 0, SEEK_SET), then
\* the loop
parse_cpu_stats(lines, data, n) == parse_loop(lines, 1, data, 0, n, {})

----------------------------------------------------------------------------
(* count_cpus and parse_cpu_stats of proc_stat_poller.c *)

\* count_cpus(file): fseek(file, 0, SEEK_SET), then the same loop
ps_count_cpus(lines) == count_loop(lines, 1, 0)

\* variant: the format of the per-core line, whose first conversion takes
\* the first counter for the core's number
sscanf_aggregate_WithId(line, stats) ==
    LET vals == IF line.nums = <<>> THEN <<>> ELSE Tail(line.nums)
        n    == Min(Len(vals), Len(Fields))
    IN  [f \in FieldSet |->
           LET k == CHOOSE j \in 1..Len(Fields) : Fields[j] = f
           IN  IF k <= n THEN vals[k] ELSE stats[f]]

\* sscanf(line, "cpu %llu ... %llu", &aggregate->user, ...) on a line that
\* starts with "cpu "
sscanf_aggregate(line, stats) ==
    LET n == Min(Len(line.nums), Len(Fields))
    IN  [f \in FieldSet |->
           LET k == CHOOSE j \in 1..Len(Fields) : Fields[j] = f
           IN  IF k <= n THEN line.nums[k] ELSE stats[f]]

\* cpu_stats_t *stats = &cpu_data[cpu_count]; sscanf(...): an element outside
\* the array is memory the model does not hold, the store is only recorded
ps_store(data, cpu_count, line) ==
    IF cpu_count + 1 \in DOMAIN data
    THEN LET r == sscanf_cpu_stats(line, data[cpu_count + 1])
         IN  [ret |-> r.ret, data |-> [data EXCEPT ![cpu_count + 1] = r.stats]]
    ELSE [ret |-> sscanf_cpu_stats(line, ZeroStats).ret, data |-> data]

RECURSIVE ps_parse_loop_NoBreak(_, _, _, _, _, _, _, _)
RECURSIVE ps_parse_loop(_, _, _, _, _, _, _, _)
\* variant: no "if (cpu_count >= num_cpus) break;"
ps_parse_loop_NoBreak(lines, k, agg, data, cpu_count, n, per_core, w) ==
    IF k > Len(lines)
    THEN [aggregate |-> agg, data |-> data, ret |-> cpu_count, writes |-> w]
    ELSE IF lines[k].tag # "cpu"
    THEN ps_parse_loop_NoBreak(lines, k + 1, agg, data, cpu_count, n, per_core, w)
    ELSE IF lines[k].id = NoId
    THEN ps_parse_loop_NoBreak(lines, k + 1, sscanf_aggregate(lines[k], agg),
                               data, cpu_count, n, per_core, w)
    ELSE IF ~per_core
    THEN ps_parse_loop_NoBreak(lines, k + 1, agg, data, cpu_count, n, per_core, w)
    ELSE LET r  == ps_store(data, cpu_count, lines[k])
             w2 == IF r.ret >= 2 THEN w \cup {cpu_count} ELSE w
         IN  ps_parse_loop_NoBreak(lines, k + 1, agg, r.data,
                                   IF r.ret = 11 THEN cpu_count + 1
                                   ELSE cpu_count,
                                   n, per_core, w2)

\* the while loop of parse_cpu_stats of proc_stat_poller.c; data is cpu_data,
\* 1-based; w collects the indices (0-based) sscanf stored a field through
ps_parse_loop(lines, k, agg, data, cpu_count, n, per_core, w) ==
    IF k > Len(lines)
    THEN [aggregate |-> agg, data |-> data, ret |-> cpu_count, writes |-> w]
    ELSE IF lines[k].tag # "cpu"
    THEN ps_parse_loop(lines, k + 1, agg, data, cpu_count, n, per_core, w)
    ELSE IF lines[k].id = NoId
    THEN ps_parse_loop(lines, k + 1, sscanf_aggregate(lines[k], agg), data,
                       cpu_count, n, per_core, w)
    ELSE IF ~per_core
    THEN ps_parse_loop(lines, k + 1, agg, data, cpu_count, n, per_core, w)
    ELSE LET r  == ps_store(data, cpu_count, lines[k])
             w2 == IF r.ret >= 2 THEN w \cup {cpu_count} ELSE w
         IN  IF r.ret = 11 /\ cpu_count + 1 >= n
             THEN [aggregate |-> agg, data |-> r.data, ret |-> cpu_count + 1,
                   writes |-> w2]
             ELSE ps_parse_loop(lines, k + 1, agg, r.data,
                                IF r.ret = 11 THEN cpu_count + 1 ELSE cpu_count,
                                n, per_core, w2)

\* parse_cpu_stats(file, aggregate, cpu_data, num_cpus, include_per_core):
\* fseek(file, 0, SEEK_SET), then the loop
ps_parse_cpu_stats(lines, agg, data, n, per_core) ==
    ps_parse_loop(lines, 1, agg, data, 0, n, per_core, {})

----------------------------------------------------------------------------
(* What /proc/stat can show *)

Nums(user, nice, idle, iowait, guest_nice) ==
    <<user, nice, 0, idle, iowait, 0, 0, 0, 0, guest_nice>>

AggLine(nums)     == [tag |-> "cpu", id |-> NoId, nums |-> nums]
CoreLine(n, nums) == [tag |-> "cpu", id |-> n, nums |-> nums]
OtherLine         == [tag |-> "intr", id |-> NoId, nums |-> <<7, 0, 3>>]

\* cpu0 and cpu1 at two instants, and cpu0 after its idle counter fell
A0 == Nums(100, 0, 50, 10, 0)
B0 == Nums(110, 0, 60, 10, 0)
D0 == Nums(115, 0, 45, 10, 0)
A1 == Nums(20, 5, 0, 0, 0)
B1 == Nums(100, 5, 10, 10, 0)
AggA == Nums(120, 5, 50, 10, 0)
AggB == Nums(210, 5, 70, 20, 0)

FileA     == <<AggLine(AggA), CoreLine(0, A0), CoreLine(1, A1), OtherLine>>
FileB     == <<AggLine(AggB), CoreLine(0, B0), CoreLine(1, B1), OtherLine>>
\* idle of cpu0 lower than in FileB
FileD     == <<AggLine(AggB), CoreLine(0, D0), CoreLine(1, B1), OtherLine>>
\* cpu0 offline: its line is missing
FileOff   == <<AggLine(AggB), CoreLine(1, B1), OtherLine>>
\* the line of cpu0 has nine counters
FileShort == <<AggLine(AggB), CoreLine(0, SubSeq(B0, 1, 9)), CoreLine(1, B1),
               OtherLine>>
\* no aggregate line
FileCores == <<CoreLine(0, A0), CoreLine(1, A1), OtherLine>>
\* no cpu line at all
FileNone  == <<OtherLine>>
\* a read that returns nothing
FileEmpty == <<>>

Files == {FileA, FileB, FileD, FileOff, FileShort, FileCores, FileNone, FileEmpty}

\* a third core has come online
FileMore  == <<AggLine(AggB), CoreLine(0, B0), CoreLine(1, B1), CoreLine(2, A1),
               OtherLine>>
\* the line of the last core has nine counters
FileShortLast == <<AggLine(AggB), CoreLine(0, B0), CoreLine(1, SubSeq(B1, 1, 9)),
                   OtherLine>>
\* every per-core line has nine counters (a kernel without guest_nice)
FileNine  == <<AggLine(SubSeq(AggB, 1, 9)), CoreLine(0, SubSeq(B0, 1, 9)),
               CoreLine(1, SubSeq(B1, 1, 9)), OtherLine>>

\* counters an earlier pass has left in an element
Seen == Nums(90, 5, 40, 10, 5)

----------------------------------------------------------------------------
(* main() of cpu_load_poller.c *)

Running ==
    pc \notin {"exited", "killed", "calc_call", "calc_ret", "printed",
               "parse_call", "parse_ret", "ps_parse_ret"}

Init ==
    /\ pc = "options"
    /\ done = 0
    /\ handler = FALSE
    /\ show_help \in BOOLEAN
    /\ should_write_marker \in BOOLEAN
    /\ first_reading = 1
    /\ stat = <<>>
    /\ stat_file = "none"
    /\ fpos = 0
    /\ num_cpus = 0
    /\ cpu_data = <<>>
    /\ heap = "none"
    /\ i = 0
    /\ current_time = 0
    /\ header = <<>>
    /\ row = <<>>
    /\ last_row = <<>>
    /\ rows = 0
    /\ pending = 0
    /\ markers = 0
    /\ errlog = 0
    /\ exit_status = NoStatus
    /\ after_latch = 0
    /\ calc = [load |-> Zero, divided |-> FALSE]
    /\ parsed = 0
    /\ killed_at = ""
    /\ samples = 0
    /\ unchanged = FALSE
    /\ writes = {}
    /\ include_per_core = FALSE
    /\ aggregate_stats = ZeroStats
    /\ ps_cpu_data = <<>>
    /\ timestamp = <<>>
    /\ buf = <<>>
    /\ files_to_poll = <<>>
    /\ last_read = <<>>
    /\ labelCount = 0

\* variant: every exit reports the same status
Exit_OneStatus(code) ==
    /\ pc' = "exited"
    /\ exit_status' = 1
    /\ pending' = 0

\* exit(code): stdio flushes what is buffered
Exit(code) ==
    /\ pc' = "exited"
    /\ exit_status' = code
    /\ pending' = 0

\* if (show_help) { ...; exit(1); }
CheckHelp ==
    /\ pc = "options"
    /\ IF show_help
       THEN /\ Exit(1)
            /\ UNCHANGED stat_file
       ELSE /\ pc' = "fopen"
            /\ UNCHANGED <<exit_status, pending, stat_file>>
    /\ UNCHANGED <<done, handler, show_help, should_write_marker, first_reading,
                   stat, fpos, num_cpus, cpu_data, heap, i, current_time,
                   header, row, last_row, rows, markers, errlog, after_latch,
                   calc, parsed, killed_at, samples,
                   unchanged, writes, ps_vars, gp_vars>>

\* FILE *stat_file = fopen("/proc/stat", "r"); NULL: exit(2)
Fopen ==
    /\ pc = "fopen"
    /\ \E ok \in BOOLEAN :
         IF ok
         THEN /\ stat_file' = "open"
              /\ pc' = "count"
              /\ UNCHANGED <<exit_status, pending>>
         ELSE /\ Exit(2)
              /\ UNCHANGED stat_file
    /\ UNCHANGED <<done, handler, show_help, should_write_marker, first_reading,
                   stat, fpos, num_cpus, cpu_data, heap, i, current_time,
                   header, row, last_row, rows, markers, errlog, after_latch,
                   calc, parsed, killed_at, samples,
                   unchanged, writes, ps_vars, gp_vars>>

\* int num_cpus = count_cpus(stat_file); 0: fclose, exit(3)
CountCpus ==
    /\ pc = "count"
    /\ \E f \in Files :
         /\ stat' = f
         /\ num_cpus' = count_cpus(f, fpos)
         /\ fpos' = Len(f)
         /\ unchanged' = (f = stat)
    /\ IF num_cpus' = 0
       THEN /\ stat_file' = "closed"
            /\ Exit(3)
       ELSE /\ pc' = "calloc"
            /\ UNCHANGED <<stat_file, exit_status, pending>>
    /\ UNCHANGED <<done, handler, show_help, should_write_marker, first_reading,
                   cpu_data, heap, i, current_time, header, row,
                   last_row, rows, markers, errlog, after_latch, calc, parsed, killed_at, samples,
                   writes, ps_vars, gp_vars>>

\* cpu_data = calloc(num_cpus, sizeof(cpu_data_t)); NULL: fclose, exit(4)
Calloc ==
    /\ pc = "calloc"
    /\ \E ok \in BOOLEAN :
         IF ok
         THEN /\ cpu_data' = [k \in 1..num_cpus |-> cpu_data_t]
              /\ heap' = "allocated"
              /\ pc' = "seed"
              /\ UNCHANGED <<stat_file, exit_status, pending>>
         ELSE /\ stat_file' = "closed"
              /\ Exit(4)
              /\ UNCHANGED <<cpu_data, heap>>
    /\ UNCHANGED <<done, handler, show_help, should_write_marker, first_reading,
                   stat, fpos, num_cpus, i, current_time, header, row,
                   last_row, rows, markers, errlog, after_latch, calc, parsed, killed_at, samples,
                   unchanged, writes, ps_vars, gp_vars>>

\* parse_cpu_stats(stat_file, cpu_data, num_cpus);   (line 228)
SeedParse ==
    /\ pc = "seed"
    /\ \E f \in Files :
         LET r == parse_cpu_stats(f, cpu_data, num_cpus)
         IN  /\ stat' = f
             /\ cpu_data' = r.data
             /\ fpos' = r.pos
             /\ parsed' = r.ret
             /\ writes' = r.writes
             /\ unchanged' = (f = stat)
    /\ samples' = samples + 1
    /\ pc' = "header"
    /\ UNCHANGED <<done, handler, show_help, should_write_marker, first_reading,
                   stat_file, num_cpus, heap, i, current_time, header,
                   row, last_row, rows, pending, markers, errlog, exit_status,
                   after_latch, calc, killed_at, ps_vars, gp_vars>>

\* variant: the header is not printed
PrintHeader_Skip ==
    /\ pc = "header"
    /\ pc' = "copy"
    /\ UNCHANGED <<done, handler, show_help, should_write_marker, first_reading,
                   stat, stat_file, fpos, num_cpus, cpu_data, heap, i,
                   current_time, header, row, last_row, rows, pending, markers,
                   errlog, exit_status, after_latch, calc, parsed, killed_at,
                   samples, unchanged, writes, ps_vars, gp_vars>>

\* printf("time"); for (i < num_cpus) printf(",cpu%d_load", i); printf("\n");
PrintHeader ==
    /\ pc = "header"
    /\ header' = <<"time">> \o [k \in 1..num_cpus |-> k - 1]
    /\ pending' = pending + 1
    /\ pc' = "copy"
    /\ UNCHANGED <<done, handler, show_help, should_write_marker, first_reading,
                   stat, stat_file, fpos, num_cpus, cpu_data, heap, i,
                   current_time, row, last_row, rows, markers, errlog,
                   exit_status, after_latch, calc, parsed, killed_at, samples,
                   unchanged, writes, ps_vars, gp_vars>>

\* for (i < num_cpus) cpu_data[i].previous = cpu_data[i].current;
SeedCopy ==
    /\ pc = "copy"
    /\ cpu_data' = [k \in 1..num_cpus |->
                      [cpu_data[k] EXCEPT !.previous = cpu_data[k].current]]
    /\ pc' = "sigaction"
    /\ UNCHANGED <<done, handler, show_help, should_write_marker, first_reading,
                   stat, stat_file, fpos, num_cpus, heap, i, current_time,
                   header, row, last_row, rows, pending, markers, errlog,
                   exit_status, after_latch, calc, parsed, killed_at, samples,
                   unchanged, writes, ps_vars, gp_vars>>

\* action.sa_handler = term; sigaction(SIGTERM, &action, NULL);
Sigaction ==
    /\ pc = "sigaction"
    /\ handler' = TRUE
    /\ pc' = "loop"
    /\ UNCHANGED <<done, show_help, should_write_marker, first_reading, stat,
                   stat_file, fpos, num_cpus, cpu_data, heap, i, current_time,
                   header, row, last_row, rows, pending, markers, errlog,
                   exit_status, after_latch, calc, parsed, killed_at, samples,
                   unchanged, writes, ps_vars, gp_vars>>

----------------------------------------------------------------------------
(* The sampling loop *)

\* variant: the loop condition does not read done
LoopCheck_IgnoreDone ==
    /\ pc = "loop"
    /\ rows < MaxTicks
    /\ pc' = "clock"
    /\ UNCHANGED <<done, handler, show_help, should_write_marker, first_reading,
                   stat, stat_file, fpos, num_cpus, cpu_data, heap, i,
                   current_time, header, row, last_row, rows, pending, markers,
                   errlog, exit_status, after_latch, calc, parsed, killed_at, samples,
                   unchanged, writes, ps_vars, gp_vars>>

\* while (!done): the model follows MaxTicks iterations
LoopCheck ==
    /\ pc = "loop"
    /\ IF done # 0
       THEN pc' = "free"
       ELSE /\ rows < MaxTicks
            /\ pc' = "clock"
    /\ UNCHANGED <<done, handler, show_help, should_write_marker, first_reading,
                   stat, stat_file, fpos, num_cpus, cpu_data, heap, i,
                   current_time, header, row, last_row, rows, pending, markers,
                   errlog, exit_status, after_latch, calc, parsed, killed_at, samples,
                   unchanged, writes, ps_vars, gp_vars>>

\* clock_gettime(CLOCK_BOOTTIME, &current_time);
ClockGettime ==
    /\ pc = "clock"
    /\ current_time' = rows + 1
    /\ pc' = "marker"
    /\ UNCHANGED <<done, handler, show_help, should_write_marker, first_reading,
                   stat, stat_file, fpos, num_cpus, cpu_data, heap, i, header,
                   row, last_row, rows, pending, markers, errlog, exit_status,
                   after_latch, calc, parsed, killed_at, samples,
                   unchanged, writes, ps_vars, gp_vars>>

\* write_trace_marker(marker, 16): -errno when the fopen fails; else the
\* count fwrite reports, 16 once the bytes are in the stream's buffer (0 when
\* the stream could take none), and fclose, whose result is dropped, hands
\* them to the kernel, which takes them or not
write_trace_marker ==
    {[ret |-> -1, written |-> FALSE], [ret |-> 0, written |-> FALSE],
     [ret |-> 16, written |-> TRUE], [ret |-> 16, written |-> FALSE]}

\* if (should_write_marker && first_reading) { ret = write_trace_marker(..);
\*     if (ret < 0) fprintf(stderr, ...); }
WriteMarker ==
    /\ pc = "marker"
    /\ IF should_write_marker /\ first_reading # 0
       THEN \E m \in write_trace_marker :
              /\ markers' = IF m.written THEN markers + 1 ELSE markers
              /\ errlog' = IF m.ret < 0 THEN errlog + 1 ELSE errlog
       ELSE UNCHANGED <<markers, errlog>>
    /\ pc' = "parse"
    /\ UNCHANGED <<done, handler, show_help, should_write_marker, first_reading,
                   stat, stat_file, fpos, num_cpus, cpu_data, heap, i,
                   current_time, header, row, last_row, rows, pending,
                   exit_status, after_latch, calc, parsed, killed_at, samples,
                   unchanged, writes, ps_vars, gp_vars>>

\* variant: a pass that accepts fewer than num_cpus lines ends the loop
Parse_StopOnShort ==
    /\ pc = "parse"
    /\ \E f \in Files :
         LET r == parse_cpu_stats(f, cpu_data, num_cpus)
         IN  /\ stat' = f
             /\ cpu_data' = r.data
             /\ fpos' = r.pos
             /\ parsed' = r.ret
             /\ writes' = r.writes
             /\ unchanged' = (f = stat)
             /\ pc' = IF r.ret < num_cpus THEN "free" ELSE "time"
    /\ samples' = samples + 1
    /\ UNCHANGED <<done, handler, show_help, should_write_marker, first_reading,
                   stat_file, num_cpus, heap, i, current_time, header,
                   row, last_row, rows, pending, markers, errlog, exit_status,
                   after_latch, calc, killed_at, ps_vars, gp_vars>>

\* parse_cpu_stats(stat_file, cpu_data, num_cpus);   (line 263)
Parse ==
    /\ pc = "parse"
    /\ \E f \in Files :
         LET r == parse_cpu_stats(f, cpu_data, num_cpus)
         IN  /\ stat' = f
             /\ cpu_data' = r.data
             /\ fpos' = r.pos
             /\ parsed' = r.ret
             /\ writes' = r.writes
             /\ unchanged' = (f = stat)
    /\ samples' = samples + 1
    /\ pc' = "time"
    /\ UNCHANGED <<done, handler, show_help, should_write_marker, first_reading,
                   stat_file, num_cpus, heap, i, current_time, header,
                   row, last_row, rows, pending, markers, errlog, exit_status,
                   after_latch, calc, killed_at, ps_vars, gp_vars>>

\* printf("%f", time_float);  and  for (int i = 0; ...
PrintTime ==
    /\ pc = "time"
    /\ row' = <<current_time>>
    /\ i' = 0
    /\ pc' = "loads"
    /\ UNCHANGED <<done, handler, show_help, should_write_marker, first_reading,
                   stat, stat_file, fpos, num_cpus, cpu_data, heap,
                   current_time, header, last_row, rows, pending, markers,
                   errlog, exit_status, after_latch, calc, parsed, killed_at, samples,
                   unchanged, writes, ps_vars, gp_vars>>

\* variant: the load loop runs over the lines the last parse accepted
RowCores_Present == Min(num_cpus, parsed)

\* the bound of the load loop: i < num_cpus
RowCores == num_cpus

\* variant: the first_reading test left out
LoadOf_NoFirstGuard(k) ==
    calculate_cpu_load(cpu_data[k + 1].current, cpu_data[k + 1].previous).load

\* double load = 0.0; if (!first_reading) load = calculate_cpu_load(...);
LoadOf(k) ==
    IF first_reading = 0
    THEN calculate_cpu_load(cpu_data[k + 1].current, cpu_data[k + 1].previous).load
    ELSE Zero

\* variant: previous is only taken over once a load has been computed from it
PrintLoad_KeepSeedOnFirst ==
    /\ pc = "loads"
    /\ i < RowCores
    /\ row' = Append(row, Fmt2(LoadOf(i)))
    /\ cpu_data' = IF first_reading # 0 THEN cpu_data
                   ELSE [cpu_data EXCEPT
                           ![i + 1].previous = cpu_data[i + 1].current]
    /\ i' = i + 1
    /\ UNCHANGED <<pc, done, handler, show_help, should_write_marker,
                   first_reading, stat, stat_file, fpos, num_cpus, heap,
                   current_time, header, last_row, rows, pending, markers,
                   errlog, exit_status, after_latch, calc, parsed, killed_at,
                   samples, unchanged, writes, ps_vars, gp_vars>>

\* variant: done is also tested inside the load loop
PrintLoad_AbortOnDone ==
    /\ pc = "loads"
    /\ i < RowCores
    /\ IF done # 0
       THEN /\ pc' = "free"
            /\ UNCHANGED <<row, cpu_data, i>>
       ELSE /\ row' = Append(row, Fmt2(LoadOf(i)))
            /\ cpu_data' = [cpu_data EXCEPT
                              ![i + 1].previous = cpu_data[i + 1].current]
            /\ i' = i + 1
            /\ UNCHANGED pc
    /\ UNCHANGED <<done, handler, show_help, should_write_marker,
                   first_reading, stat, stat_file, fpos, num_cpus, heap,
                   current_time, header, last_row, rows, pending, markers,
                   errlog, exit_status, after_latch, calc, parsed, killed_at, samples,
                   unchanged, writes, ps_vars, gp_vars>>

\* one pass of the load loop: printf(",%.2f", load);
\* cpu_data[i].previous = cpu_data[i].current;
PrintLoad ==
    /\ pc = "loads"
    /\ i < RowCores
    /\ row' = Append(row, Fmt2(LoadOf(i)))
    /\ cpu_data' = [cpu_data EXCEPT ![i + 1].previous = cpu_data[i + 1].current]
    /\ i' = i + 1
    /\ UNCHANGED <<pc, done, handler, show_help, should_write_marker,
                   first_reading, stat, stat_file, fpos, num_cpus, heap,
                   current_time, header, last_row, rows, pending, markers,
                   errlog, exit_status, after_latch, calc, parsed, killed_at, samples,
                   unchanged, writes, ps_vars, gp_vars>>

\* printf("\n");
Newline ==
    /\ pc = "loads"
    /\ ~(i < RowCores)
    /\ last_row' = row
    /\ row' = <<>>
    /\ rows' = rows + 1
    /\ pending' = pending + 1
    /\ after_latch' = IF done # 0 THEN after_latch + 1 ELSE after_latch
    /\ pc' = "fflush"
    /\ UNCHANGED <<done, handler, show_help, should_write_marker, first_reading,
                   stat, stat_file, fpos, num_cpus, cpu_data, heap, i,
                   current_time, header, markers, errlog, exit_status, calc, parsed, killed_at, samples,
                   unchanged, writes, ps_vars, gp_vars>>

\* variant: stdout is left to flush itself
Fflush_Skip ==
    /\ pc = "fflush"
    /\ pc' = "first"
    /\ UNCHANGED <<done, handler, show_help, should_write_marker, first_reading,
                   stat, stat_file, fpos, num_cpus, cpu_data, heap, i,
                   current_time, header, row, last_row, rows, pending, markers,
                   errlog, exit_status, after_latch, calc, parsed, killed_at,
                   samples, unchanged, writes, ps_vars, gp_vars>>

\* fflush(stdout);
Fflush ==
    /\ pc = "fflush"
    /\ pending' = 0
    /\ pc' = "first"
    /\ UNCHANGED <<done, handler, show_help, should_write_marker, first_reading,
                   stat, stat_file, fpos, num_cpus, cpu_data, heap, i,
                   current_time, header, row, last_row, rows, markers, errlog,
                   exit_status, after_latch, calc, parsed, killed_at, samples,
                   unchanged, writes, ps_vars, gp_vars>>

\* first_reading = 0;
ClearFirst ==
    /\ pc = "first"
    /\ first_reading' = 0
    /\ pc' = "usleep"
    /\ UNCHANGED <<done, handler, show_help, should_write_marker, stat,
                   stat_file, fpos, num_cpus, cpu_data, heap, i, current_time,
                   header, row, last_row, rows, pending, markers, errlog,
                   exit_status, after_latch, calc, parsed, killed_at, samples,
                   unchanged, writes, ps_vars, gp_vars>>

\* usleep(interval): returns when the interval is over or a signal arrives
Usleep ==
    /\ pc = "usleep"
    /\ pc' = "loop"
    /\ UNCHANGED <<done, handler, show_help, should_write_marker, first_reading,
                   stat, stat_file, fpos, num_cpus, cpu_data, heap, i,
                   current_time, header, row, last_row, rows, pending, markers,
                   errlog, exit_status, after_latch, calc, parsed, killed_at, samples,
                   unchanged, writes, ps_vars, gp_vars>>

\* free(cpu_data);
Free ==
    /\ pc = "free"
    /\ heap' = "freed"
    /\ pc' = "fclose"
    /\ UNCHANGED <<done, handler, show_help, should_write_marker, first_reading,
                   stat, stat_file, fpos, num_cpus, cpu_data, i, current_time,
                   header, row, last_row, rows, pending, markers, errlog,
                   exit_status, after_latch, calc, parsed, killed_at, samples,
                   unchanged, writes, ps_vars, gp_vars>>

\* fclose(stat_file);
Fclose ==
    /\ pc = "fclose"
    /\ stat_file' = "closed"
    /\ pc' = "exit"
    /\ UNCHANGED <<done, handler, show_help, should_write_marker, first_reading,
                   stat, fpos, num_cpus, cpu_data, heap, i, current_time,
                   header, row, last_row, rows, pending, markers, errlog,
                   exit_status, after_latch, calc, parsed, killed_at, samples,
                   unchanged, writes, ps_vars, gp_vars>>

\* exit(0);
Exit0 ==
    /\ pc = "exit"
    /\ Exit(0)
    /\ UNCHANGED <<done, handler, show_help, should_write_marker, first_reading,
                   stat, stat_file, fpos, num_cpus, cpu_data, heap, i,
                   current_time, header, row, last_row, rows, markers, errlog,
                   after_latch, calc, parsed, killed_at, samples,
                   unchanged, writes, ps_vars, gp_vars>>

----------------------------------------------------------------------------
(* The environment *)

\* void term(int signum) { done = 1; }
term ==
    /\ done' = 1
    /\ UNCHANGED <<pc, handler, show_help, should_write_marker, first_reading,
                   stat, stat_file, fpos, num_cpus, cpu_data, heap, i,
                   current_time, header, row, last_row, rows, pending, markers,
                   errlog, exit_status, after_latch, calc, parsed, killed_at, samples,
                   unchanged, writes, ps_vars, gp_vars>>

\* SIGTERM with its default disposition: the process ends there, with no
\* exit status and without flushing stdio
DefaultSigterm ==
    /\ pc' = "killed"
    /\ killed_at' = pc
    /\ UNCHANGED <<done, handler, show_help, should_write_marker, first_reading,
                   stat, stat_file, fpos, num_cpus, cpu_data, heap, i,
                   current_time, header, row, last_row, rows, pending, markers,
                   errlog, exit_status, after_latch, calc, parsed, samples,
                   unchanged, writes, ps_vars, gp_vars>>

\* SIGTERM is delivered to the process
Sigterm ==
    /\ Running
    /\ IF handler THEN done = 0 /\ term ELSE DefaultSigterm

MainStep ==
    \/ CheckHelp \/ Fopen \/ CountCpus \/ Calloc \/ SeedParse \/ PrintHeader
    \/ SeedCopy \/ Sigaction \/ LoopCheck \/ ClockGettime \/ WriteMarker
    \/ Parse \/ PrintTime \/ PrintLoad \/ Newline \/ Fflush \/ ClearFirst
    \/ Usleep \/ Free \/ Fclose \/ Exit0

Next == MainStep \/ Sigterm

Spec == Init /\ [][Next]_vars

\* the process is scheduled: a step of main() that can be taken is taken
FairSpec == Spec /\ WF_vars(MainStep)

----------------------------------------------------------------------------
(* main() of proc_stat_poller.c *)

\* the ten cells printf("%llu") writes for one cpu_stats_t
StatsCells(s) == [j \in 1..Len(Fields) |-> s[Fields[j]]]

RECURSIVE CoreColumns(_, _)
\* the column names cpu<k>_user .. cpu<k>_guest_nice for k = from .. n-1
CoreColumns(from, n) ==
    IF from >= n THEN <<>>
    ELSE [j \in 1..Len(Fields) |-> <<from, Fields[j]>>] \o CoreColumns(from + 1, n)

\* format_iso8601_timestamp: the time as a string, date and time of day to
\* the microsecond with the zone offset
format_iso8601_timestamp(ts) == <<"iso8601", ts>>

InitStat ==
    /\ pc = "ps_options"
    /\ done = 0
    /\ handler = FALSE
    /\ show_help \in BOOLEAN
    /\ should_write_marker \in BOOLEAN
    /\ include_per_core \in BOOLEAN
    /\ first_reading = 1
    /\ stat = <<>>
    /\ stat_file = "none"
    /\ fpos = 0
    /\ num_cpus = 0
    /\ cpu_data = <<>>
    /\ heap = "none"
    /\ i = 0
    /\ current_time = 0
    /\ header = <<>>
    /\ row = <<>>
    /\ last_row = <<>>
    /\ rows = 0
    /\ pending = 0
    /\ markers = 0
    /\ errlog = 0
    /\ exit_status = NoStatus
    /\ after_latch = 0
    /\ calc = [load |-> Zero, divided |-> FALSE]
    /\ parsed = 0
    /\ killed_at = ""
    /\ samples = 0
    /\ unchanged = FALSE
    /\ writes = {}
    /\ aggregate_stats = ZeroStats
    /\ ps_cpu_data = <<>>
    /\ timestamp = <<>>
    /\ buf = <<>>
    /\ files_to_poll = <<>>
    /\ last_read = <<>>
    /\ labelCount = 0

\* if (show_help) { ...; exit(1); }
PsCheckHelp ==
    /\ pc = "ps_options"
    /\ IF show_help
       THEN Exit(1)
       ELSE /\ pc' = "ps_fopen"
            /\ UNCHANGED <<exit_status, pending>>
    /\ UNCHANGED <<done, handler, show_help, should_write_marker,
                   first_reading, stat, stat_file, fpos, num_cpus, cpu_data,
                   heap, i, current_time, header, row, last_row, rows,
                   markers, errlog, after_latch, calc, parsed, killed_at,
                   samples, unchanged, writes, include_per_core,
                   aggregate_stats, ps_cpu_data, timestamp, gp_vars>>

\* stat_file = fopen("/proc/stat", "r"); NULL: exit(2); then
\* if (include_per_core) ...
PsFopen ==
    /\ pc = "ps_fopen"
    /\ \E ok \in BOOLEAN :
         IF ok
         THEN /\ stat_file' = "open"
              /\ pc' = IF include_per_core THEN "ps_count" ELSE "ps_memset"
              /\ UNCHANGED <<exit_status, pending>>
         ELSE /\ Exit(2)
              /\ UNCHANGED stat_file
    /\ UNCHANGED <<done, handler, show_help, should_write_marker,
                   first_reading, stat, fpos, num_cpus, cpu_data, heap, i,
                   current_time, header, row, last_row, rows, markers, errlog,
                   after_latch, calc, parsed, killed_at, samples, unchanged,
                   writes, include_per_core, aggregate_stats, ps_cpu_data,
                   timestamp, gp_vars>>

\* num_cpus = count_cpus(stat_file); 0: fclose, exit(3)
PsCountCpus ==
    /\ pc = "ps_count"
    /\ \E f \in Files :
         /\ stat' = f
         /\ num_cpus' = ps_count_cpus(f)
    /\ IF num_cpus' = 0
       THEN /\ stat_file' = "closed"
            /\ Exit(3)
       ELSE /\ pc' = "ps_calloc"
            /\ UNCHANGED <<stat_file, exit_status, pending>>
    /\ UNCHANGED <<done, handler, show_help, should_write_marker,
                   first_reading, fpos, cpu_data, heap, i, current_time,
                   header, row, last_row, rows, markers, errlog, after_latch,
                   calc, parsed, killed_at, samples, unchanged, writes,
                   include_per_core, aggregate_stats, ps_cpu_data, timestamp,
                   gp_vars>>

\* cpu_data = calloc(num_cpus, sizeof(cpu_stats_t)); NULL: fclose, exit(4)
PsCalloc ==
    /\ pc = "ps_calloc"
    /\ \E ok \in BOOLEAN :
         IF ok
         THEN /\ ps_cpu_data' = [k \in 1..num_cpus |-> ZeroStats]
              /\ heap' = "allocated"
              /\ pc' = "ps_memset"
              /\ UNCHANGED <<stat_file, exit_status, pending>>
         ELSE /\ stat_file' = "closed"
              /\ Exit(4)
              /\ UNCHANGED <<ps_cpu_data, heap>>
    /\ UNCHANGED <<done, handler, show_help, should_write_marker,
                   first_reading, stat, fpos, num_cpus, cpu_data, i,
                   current_time, header, row, last_row, rows, markers, errlog,
                   after_latch, calc, parsed, killed_at, samples, unchanged,
                   writes, include_per_core, aggregate_stats, timestamp,
                   gp_vars>>

\* memset(&aggregate_stats, 0, sizeof(cpu_stats_t));
PsMemset ==
    /\ pc = "ps_memset"
    /\ aggregate_stats' = ZeroStats
    /\ pc' = "ps_header"
    /\ UNCHANGED <<done, handler, show_help, should_write_marker,
                   first_reading, stat, stat_file, fpos, num_cpus, cpu_data,
                   heap, i, current_time, header, row, last_row, rows,
                   pending, markers, errlog, exit_status, after_latch, calc,
                   parsed, killed_at, samples, unchanged, writes,
                   include_per_core, ps_cpu_data, timestamp, gp_vars>>

\* printf("timestamp,user,...,guest_nice"); with -c, for (i < num_cpus)
\* printf(",cpu%d_user,...,cpu%d_guest_nice", i, ...); printf("\n");
PsPrintHeader ==
    /\ pc = "ps_header"
    /\ header' = <<"timestamp">> \o Fields
                   \o (IF include_per_core THEN CoreColumns(0, num_cpus) ELSE <<>>)
    /\ pending' = pending + 1
    /\ pc' = "ps_sigaction"
    /\ UNCHANGED <<done, handler, show_help, should_write_marker,
                   first_reading, stat, stat_file, fpos, num_cpus, cpu_data,
                   heap, i, current_time, row, last_row, rows, markers,
                   errlog, exit_status, after_latch, calc, parsed, killed_at,
                   samples, unchanged, writes, include_per_core,
                   aggregate_stats, ps_cpu_data, timestamp, gp_vars>>

\* sigaction(SIGTERM, &action, NULL);
PsSigaction ==
    /\ pc = "ps_sigaction"
    /\ handler' = TRUE
    /\ pc' = "ps_loop"
    /\ UNCHANGED <<done, show_help, should_write_marker, first_reading, stat,
                   stat_file, fpos, num_cpus, cpu_data, heap, i, current_time,
                   header, row, last_row, rows, pending, markers, errlog,
                   exit_status, after_latch, calc, parsed, killed_at, samples,
                   unchanged, writes, include_per_core, aggregate_stats,
                   ps_cpu_data, timestamp, gp_vars>>

\* while (!done): the model follows MaxTicks iterations
PsLoopCheck ==
    /\ pc = "ps_loop"
    /\ IF done # 0
       THEN pc' = "ps_free"
       ELSE /\ rows < MaxTicks
            /\ pc' = "ps_clock"
    /\ UNCHANGED <<done, handler, show_help, should_write_marker,
                   first_reading, stat, stat_file, fpos, num_cpus, cpu_data,
                   heap, i, current_time, header, row, last_row, rows,
                   pending, markers, errlog, exit_status, after_latch, calc,
                   parsed, killed_at, samples, unchanged, writes,
                   include_per_core, aggregate_stats, ps_cpu_data, timestamp,
                   gp_vars>>

\* clock_gettime(CLOCK_REALTIME, &current_time);
PsClockGettime ==
    /\ pc = "ps_clock"
    /\ current_time' = rows + 1
    /\ pc' = "ps_marker"
    /\ UNCHANGED <<done, handler, show_help, should_write_marker,
                   first_reading, stat, stat_file, fpos, num_cpus, cpu_data,
                   heap, i, header, row, last_row, rows, pending, markers,
                   errlog, exit_status, after_latch, calc, parsed, killed_at,
                   samples, unchanged, writes, include_per_core,
                   aggregate_stats, ps_cpu_data, timestamp, gp_vars>>

\* if (should_write_marker && first_reading) { ret = write_trace_marker(..);
\*     if (ret < 0) fprintf(stderr, ...); }
PsWriteMarker ==
    /\ pc = "ps_marker"
    /\ IF should_write_marker /\ first_reading # 0
       THEN \E m \in write_trace_marker :
              /\ markers' = IF m.written THEN markers + 1 ELSE markers
              /\ errlog' = IF m.ret < 0 THEN errlog + 1 ELSE errlog
       ELSE UNCHANGED <<markers, errlog>>
    /\ pc' = "ps_format"
    /\ UNCHANGED <<done, handler, show_help, should_write_marker,
                   first_reading, stat, stat_file, fpos, num_cpus, cpu_data,
                   heap, i, current_time, header, row, last_row, rows,
                   pending, exit_status, after_latch, calc, parsed, killed_at,
                   samples, unchanged, writes, include_per_core,
                   aggregate_stats, ps_cpu_data, timestamp, gp_vars>>

\* format_iso8601_timestamp(timestamp, sizeof(timestamp), &current_time);
PsFormat ==
    /\ pc = "ps_format"
    /\ timestamp' = format_iso8601_timestamp(current_time)
    /\ pc' = "ps_parse"
    /\ UNCHANGED <<done, handler, show_help, should_write_marker,
                   first_reading, stat, stat_file, fpos, num_cpus, cpu_data,
                   heap, i, current_time, header, row, last_row, rows,
                   pending, markers, errlog, exit_status, after_latch, calc,
                   parsed, killed_at, samples, unchanged, writes,
                   include_per_core, aggregate_stats, ps_cpu_data, gp_vars>>

\* parse_cpu_stats(stat_file, &aggregate_stats, cpu_data, num_cpus,
\*                 include_per_core);
PsParse ==
    /\ pc = "ps_parse"
    /\ \E f \in Files :
         LET r == ps_parse_cpu_stats(f, aggregate_stats, ps_cpu_data, num_cpus,
                                     include_per_core)
         IN  /\ stat' = f
             /\ aggregate_stats' = r.aggregate
             /\ ps_cpu_data' = r.data
             /\ parsed' = r.ret
             /\ writes' = r.writes
    /\ samples' = samples + 1
    /\ pc' = "ps_time"
    /\ UNCHANGED <<done, handler, show_help, should_write_marker,
                   first_reading, stat_file, fpos, num_cpus, cpu_data, heap,
                   i, current_time, header, row, last_row, rows, pending,
                   markers, errlog, exit_status, after_latch, calc, killed_at,
                   unchanged, include_per_core, timestamp, gp_vars>>

\* printf("%s", timestamp);
PsPrintTime ==
    /\ pc = "ps_time"
    /\ row' = <<timestamp>>
    /\ pc' = "ps_aggregate"
    /\ UNCHANGED <<done, handler, show_help, should_write_marker,
                   first_reading, stat, stat_file, fpos, num_cpus, cpu_data,
                   heap, i, current_time, header, last_row, rows, pending,
                   markers, errlog, exit_status, after_latch, calc, parsed,
                   killed_at, samples, unchanged, writes, include_per_core,
                   aggregate_stats, ps_cpu_data, timestamp, gp_vars>>

\* printf(",%llu,...,%llu", aggregate_stats.user, ...);  and
\* if (include_per_core) for (int i = 0; ...
PsPrintAggregate ==
    /\ pc = "ps_aggregate"
    /\ row' = row \o StatsCells(aggregate_stats)
    /\ i' = 0
    /\ pc' = "ps_cores"
    /\ UNCHANGED <<done, handler, show_help, should_write_marker,
                   first_reading, stat, stat_file, fpos, num_cpus, cpu_data,
                   heap, current_time, header, last_row, rows, pending,
                   markers, errlog, exit_status, after_latch, calc, parsed,
                   killed_at, samples, unchanged, writes, include_per_core,
                   aggregate_stats, ps_cpu_data, timestamp, gp_vars>>

\* one pass of the per-core loop:
\* printf(",%llu,...,%llu", cpu_data[i].user, ...);
PsPrintCore ==
    /\ pc = "ps_cores"
    /\ include_per_core /\ i < num_cpus
    /\ row' = row \o StatsCells(ps_cpu_data[i + 1])
    /\ i' = i + 1
    /\ UNCHANGED pc
    /\ UNCHANGED <<done, handler, show_help, should_write_marker,
                   first_reading, stat, stat_file, fpos, num_cpus, cpu_data,
                   heap, current_time, header, last_row, rows, pending,
                   markers, errlog, exit_status, after_latch, calc, parsed,
                   killed_at, samples, unchanged, writes, include_per_core,
                   aggregate_stats, ps_cpu_data, timestamp, gp_vars>>

\* printf("\n");
PsNewline ==
    /\ pc = "ps_cores"
    /\ ~(include_per_core /\ i < num_cpus)
    /\ last_row' = row
    /\ row' = <<>>
    /\ rows' = rows + 1
    /\ pending' = pending + 1
    /\ pc' = "ps_fflush"
    /\ UNCHANGED <<done, handler, show_help, should_write_marker,
                   first_reading, stat, stat_file, fpos, num_cpus, cpu_data,
                   heap, i, current_time, header, markers, errlog,
                   exit_status, after_latch, calc, parsed, killed_at, samples,
                   unchanged, writes, include_per_core, aggregate_stats,
                   ps_cpu_data, timestamp, gp_vars>>

\* fflush(stdout);
PsFflush ==
    /\ pc = "ps_fflush"
    /\ pending' = 0
    /\ pc' = "ps_first"
    /\ UNCHANGED <<done, handler, show_help, should_write_marker,
                   first_reading, stat, stat_file, fpos, num_cpus, cpu_data,
                   heap, i, current_time, header, row, last_row, rows,
                   markers, errlog, exit_status, after_latch, calc, parsed,
                   killed_at, samples, unchanged, writes, include_per_core,
                   aggregate_stats, ps_cpu_data, timestamp, gp_vars>>

\* first_reading = 0;
PsClearFirst ==
    /\ pc = "ps_first"
    /\ first_reading' = 0
    /\ pc' = "ps_usleep"
    /\ UNCHANGED <<done, handler, show_help, should_write_marker, stat,
                   stat_file, fpos, num_cpus, cpu_data, heap, i, current_time,
                   header, row, last_row, rows, pending, markers, errlog,
                   exit_status, after_latch, calc, parsed, killed_at, samples,
                   unchanged, writes, include_per_core, aggregate_stats,
                   ps_cpu_data, timestamp, gp_vars>>

\* usleep(interval);
PsUsleep ==
    /\ pc = "ps_usleep"
    /\ pc' = "ps_loop"
    /\ UNCHANGED <<done, handler, show_help, should_write_marker,
                   first_reading, stat, stat_file, fpos, num_cpus, cpu_data,
                   heap, i, current_time, header, row, last_row, rows,
                   pending, markers, errlog, exit_status, after_latch, calc,
                   parsed, killed_at, samples, unchanged, writes,
                   include_per_core, aggregate_stats, ps_cpu_data, timestamp,
                   gp_vars>>

\* if (cpu_data != NULL) free(cpu_data);
PsFree ==
    /\ pc = "ps_free"
    /\ heap' = IF ps_cpu_data # <<>> THEN "freed" ELSE heap
    /\ pc' = "ps_fclose"
    /\ UNCHANGED <<done, handler, show_help, should_write_marker,
                   first_reading, stat, stat_file, fpos, num_cpus, cpu_data,
                   i, current_time, header, row, last_row, rows, pending,
                   markers, errlog, exit_status, after_latch, calc, parsed,
                   killed_at, samples, unchanged, writes, include_per_core,
                   aggregate_stats, ps_cpu_data, timestamp, gp_vars>>

\* fclose(stat_file);
PsFclose ==
    /\ pc = "ps_fclose"
    /\ stat_file' = "closed"
    /\ pc' = "ps_exit"
    /\ UNCHANGED <<done, handler, show_help, should_write_marker,
                   first_reading, stat, fpos, num_cpus, cpu_data, heap, i,
                   current_time, header, row, last_row, rows, pending,
                   markers, errlog, exit_status, after_latch, calc, parsed,
                   killed_at, samples, unchanged, writes, include_per_core,
                   aggregate_stats, ps_cpu_data, timestamp, gp_vars>>

\* exit(0);
PsExit0 ==
    /\ pc = "ps_exit"
    /\ Exit(0)
    /\ UNCHANGED <<done, handler, show_help, should_write_marker,
                   first_reading, stat, stat_file, fpos, num_cpus, cpu_data,
                   heap, i, current_time, header, row, last_row, rows,
                   markers, errlog, after_latch, calc, parsed, killed_at,
                   samples, unchanged, writes, include_per_core,
                   aggregate_stats, ps_cpu_data, timestamp, gp_vars>>

PsMainStep ==
    \/ PsCheckHelp \/ PsFopen \/ PsCountCpus \/ PsCalloc \/ PsMemset
    \/ PsPrintHeader \/ PsSigaction \/ PsLoopCheck \/ PsClockGettime
    \/ PsWriteMarker \/ PsFormat \/ PsParse \/ PsPrintTime \/ PsPrintAggregate
    \/ PsPrintCore \/ PsNewline \/ PsFflush \/ PsClearFirst \/ PsUsleep
    \/ PsFree \/ PsFclose \/ PsExit0

NextStat == PsMainStep \/ Sigterm

SpecStat == InitStat /\ [][NextStat]_vars

----------------------------------------------------------------------------
(* main() of poller.c, the generic file poller *)

\* the byte '\0', and what open() returns: -1, or a descriptor
Nul == "\\0"
BadFd == -1
GoodFd == 3

\* what a polled file can hold when it is read: nothing, a value with its
\* newline, a longer one, one without newline; all shorter than the buffer
Contents == {<<>>, <<"9", "\n">>, <<"4", "2", "\n">>, <<"1", "2", "3">>}

\* read(fd, buf, 1024): the bytes delivered overwrite the start of buf, the
\* rest of buf stays as it was
read(b, data) ==
    [k \in 1..BufSize |-> IF k <= Len(data) THEN data[k] ELSE b[k]]

\* strlen(buf): the number of bytes before the first NUL
strlen(b) ==
    LET z == {k \in 1..BufSize : b[k] = Nul}
    IN  IF z = {} THEN BufSize
        ELSE (CHOOSE k \in z : \A j \in z : k <= j) - 1

\* the string buf holds
cstring(b) == SubSeq(b, 1, strlen(b))

\* new_line = strlen(buf) - 1; if (buf[new_line] == '\n') buf[new_line] = 0;
\* on an empty string the byte tested and cleared is the one before buf,
\* and buf stays as it is
strip_newline(b) ==
    LET n == strlen(b)
    IN  IF n > 0 /\ b[n] = "\n" THEN [b EXCEPT ![n] = Nul] ELSE b

InitPoll ==
    /\ pc = "gp_options"
    /\ done = 0
    /\ handler = FALSE
    /\ show_help \in BOOLEAN
    /\ \E n \in 0..MaxFiles : files_to_poll = [k \in 1..n |-> BadFd]
    /\ labelCount \in 0..MaxFiles
    /\ buf = [k \in 1..BufSize |-> Nul]
    /\ last_read = <<>>
    /\ should_write_marker = FALSE
    /\ first_reading = 1
    /\ stat = <<>>
    /\ stat_file = "none"
    /\ fpos = 0
    /\ num_cpus = 0
    /\ cpu_data = <<>>
    /\ heap = "none"
    /\ i = 0
    /\ current_time = 0
    /\ header = <<>>
    /\ row = <<>>
    /\ last_row = <<>>
    /\ rows = 0
    /\ pending = 0
    /\ markers = 0
    /\ errlog = 0
    /\ exit_status = NoStatus
    /\ after_latch = 0
    /\ calc = [load |-> Zero, divided |-> FALSE]
    /\ parsed = 0
    /\ killed_at = ""
    /\ samples = 0
    /\ unchanged = FALSE
    /\ writes = {}
    /\ include_per_core = FALSE
    /\ aggregate_stats = ZeroStats
    /\ ps_cpu_data = <<>>
    /\ timestamp = <<>>

\* if (show_help) exit(1); if (optind >= argc) exit(1);
\* if (labelCount && labelCount != argc-optind) exit(1);
GpCheckArgs ==
    /\ pc = "gp_options"
    /\ IF \/ show_help
          \/ Len(files_to_poll) = 0
          \/ (labelCount # 0 /\ labelCount # Len(files_to_poll))
       THEN Exit(1)
       ELSE /\ pc' = "gp_header"
            /\ UNCHANGED <<exit_status, pending>>
    /\ UNCHANGED <<done, handler, show_help, should_write_marker,
                   first_reading, stat, stat_file, fpos, num_cpus, cpu_data,
                   heap, i, current_time, header, row, last_row, rows,
                   markers, errlog, after_latch, calc, parsed, killed_at,
                   samples, unchanged, writes, ps_vars, buf, files_to_poll,
                   last_read, labelCount>>

\* printf("time"); the labels, or each file's path while it is opened:
\* files_to_poll[i] = open(argv[optind + i], O_RDONLY), unchecked; printf("\n");
GpHeaderOpen ==
    /\ pc = "gp_header"
    /\ \E fds \in [1..Len(files_to_poll) -> {BadFd, GoodFd}] :
         files_to_poll' = fds
    /\ header' = <<"time">>
                   \o (IF labelCount # 0 THEN <<"labels">>
                       ELSE [k \in 1..Len(files_to_poll) |-> <<"path", k>>])
    /\ pending' = pending + 1
    /\ pc' = "gp_sigaction"
    /\ UNCHANGED <<done, handler, show_help, should_write_marker,
                   first_reading, stat, stat_file, fpos, num_cpus, cpu_data,
                   heap, i, current_time, row, last_row, rows, markers,
                   errlog, exit_status, after_latch, calc, parsed, killed_at,
                   samples, unchanged, writes, ps_vars, buf, last_read,
                   labelCount>>

\* sigaction(SIGTERM, &action, NULL);
GpSigaction ==
    /\ pc = "gp_sigaction"
    /\ handler' = TRUE
    /\ pc' = "gp_loop"
    /\ UNCHANGED <<done, show_help, should_write_marker, first_reading, stat,
                   stat_file, fpos, num_cpus, cpu_data, heap, i, current_time,
                   header, row, last_row, rows, pending, markers, errlog,
                   exit_status, after_latch, calc, parsed, killed_at, samples,
                   unchanged, writes, ps_vars, buf, files_to_poll, last_read,
                   labelCount>>

\* while (!done): the model follows MaxTicks iterations
GpLoopCheck ==
    /\ pc = "gp_loop"
    /\ IF done # 0
       THEN pc' = "gp_close"
       ELSE /\ rows < MaxTicks
            /\ pc' = "gp_time"
    /\ UNCHANGED <<done, handler, show_help, should_write_marker,
                   first_reading, stat, stat_file, fpos, num_cpus, cpu_data,
                   heap, i, current_time, header, row, last_row, rows,
                   pending, markers, errlog, exit_status, after_latch, calc,
                   parsed, killed_at, samples, unchanged, writes, ps_vars,
                   buf, files_to_poll, last_read, labelCount>>

\* gettimeofday(&current_time, NULL); printf("%f", time_float);
\* for (i = 0; ...
GpPrintTime ==
    /\ pc = "gp_time"
    /\ current_time' = rows + 1
    /\ row' = <<current_time'>>
    /\ i' = 0
    /\ pc' = "gp_files"
    /\ UNCHANGED <<done, handler, show_help, should_write_marker,
                   first_reading, stat, stat_file, fpos, num_cpus, cpu_data,
                   heap, header, last_row, rows, pending, markers, errlog,
                   exit_status, after_latch, calc, parsed, killed_at, samples,
                   unchanged, writes, ps_vars, buf, files_to_poll, last_read,
                   labelCount>>

\* one pass of the file loop: read(files_to_poll[i], buf, 1024); lseek to
\* the start; the trailing "\n" of the string in buf replaced by a NUL;
\* printf(",%s", buf). A descriptor open() failed to give reads nothing
GpPollFile ==
    /\ pc = "gp_files"
    /\ i < Len(files_to_poll)
    /\ \E data \in Contents :
         /\ last_read' = IF files_to_poll[i + 1] = BadFd THEN <<>> ELSE data
         /\ buf' = strip_newline(read(buf, last_read'))
         /\ row' = Append(row, cstring(buf'))
    /\ i' = i + 1
    /\ UNCHANGED pc
    /\ UNCHANGED <<done, handler, show_help, should_write_marker,
                   first_reading, stat, stat_file, fpos, num_cpus, cpu_data,
                   heap, current_time, header, last_row, rows, pending,
                   markers, errlog, exit_status, after_latch, calc, parsed,
                   killed_at, samples, unchanged, writes, ps_vars,
                   files_to_poll, labelCount>>

\* printf("\n");
GpNewline ==
    /\ pc = "gp_files"
    /\ ~(i < Len(files_to_poll))
    /\ last_row' = row
    /\ row' = <<>>
    /\ rows' = rows + 1
    /\ pending' = pending + 1
    /\ pc' = "gp_usleep"
    /\ UNCHANGED <<done, handler, show_help, should_write_marker,
                   first_reading, stat, stat_file, fpos, num_cpus, cpu_data,
                   heap, i, current_time, header, markers, errlog,
                   exit_status, after_latch, calc, parsed, killed_at, samples,
                   unchanged, writes, ps_vars, buf, files_to_poll, last_read,
                   labelCount>>

\* usleep(interval);
GpUsleep ==
    /\ pc = "gp_usleep"
    /\ pc' = "gp_loop"
    /\ UNCHANGED <<done, handler, show_help, should_write_marker,
                   first_reading, stat, stat_file, fpos, num_cpus, cpu_data,
                   heap, i, current_time, header, row, last_row, rows,
                   pending, markers, errlog, exit_status, after_latch, calc,
                   parsed, killed_at, samples, unchanged, writes, ps_vars,
                   buf, files_to_poll, last_read, labelCount>>

\* the files are opened once more (their descriptors are never closed);
\* exit(0);
GpCloseExit ==
    /\ pc = "gp_close"
    /\ \E fds \in [1..Len(files_to_poll) -> {BadFd, GoodFd}] :
         files_to_poll' = fds
    /\ Exit(0)
    /\ UNCHANGED <<done, handler, show_help, should_write_marker,
                   first_reading, stat, stat_file, fpos, num_cpus, cpu_data,
                   heap, i, current_time, header, row, last_row, rows,
                   markers, errlog, after_latch, calc, parsed, killed_at,
                   samples, unchanged, writes, ps_vars, buf, last_read,
                   labelCount>>

GpMainStep ==
    \/ GpCheckArgs \/ GpHeaderOpen \/ GpSigaction \/ GpLoopCheck \/ GpPrintTime
    \/ GpPollFile \/ GpNewline \/ GpUsleep \/ GpCloseExit

NextPoll == GpMainStep \/ Sigterm

SpecPoll == InitPoll /\ [][NextPoll]_vars

----------------------------------------------------------------------------
(* calculate_cpu_load on its own: one call on a pair of snapshots, then the
   printf of its result *)

UserVals      == {0, 80, 100, 110}
NiceVals      == {0, 200}
IdleVals      == {0, 20, 50, 60}
IowaitVals    == {0, 10}
GuestNiceVals == {0, 5}

TestStats ==
    {StatsOf(Nums(u, n, d, w, g)) :
        u \in UserVals, n \in NiceVals, d \in IdleVals, w \in IowaitVals,
        g \in GuestNiceVals}

InitCalc ==
    /\ pc = "calc_call"
    /\ \E c \in TestStats, p \in TestStats :
         cpu_data = <<[current |-> c, previous |-> p]>>
    /\ num_cpus = 1
    /\ heap = "allocated"
    /\ first_reading = 0
    /\ done = 0
    /\ handler = FALSE
    /\ show_help = FALSE
    /\ should_write_marker = FALSE
    /\ stat = FileEmpty
    /\ stat_file = "none"
    /\ fpos = 0
    /\ i = 0
    /\ current_time = 0
    /\ header = <<>>
    /\ row = <<>>
    /\ last_row = <<>>
    /\ rows = 0
    /\ pending = 0
    /\ markers = 0
    /\ errlog = 0
    /\ exit_status = NoStatus
    /\ after_latch = 0
    /\ calc = [load |-> Zero, divided |-> FALSE]
    /\ parsed = 0
    /\ killed_at = ""
    /\ samples = 0
    /\ unchanged = FALSE
    /\ writes = {}
    /\ include_per_core = FALSE
    /\ aggregate_stats = ZeroStats
    /\ ps_cpu_data = <<>>
    /\ timestamp = <<>>
    /\ buf = <<>>
    /\ files_to_poll = <<>>
    /\ last_read = <<>>
    /\ labelCount = 0

\* load = calculate_cpu_load(&cpu_data[i].current, &cpu_data[i].previous);
CalcCall ==
    /\ pc = "calc_call"
    /\ calc' = calculate_cpu_load(cpu_data[1].current, cpu_data[1].previous)
    /\ pc' = "calc_ret"
    /\ UNCHANGED <<done, handler, show_help, should_write_marker, first_reading,
                   stat, stat_file, fpos, num_cpus, cpu_data, heap, i,
                   current_time, header, row, last_row, rows, pending, markers,
                   errlog, exit_status, after_latch, parsed, killed_at, samples,
                   unchanged, writes, ps_vars, gp_vars>>

\* printf(",%.2f", load);
CalcPrint ==
    /\ pc = "calc_ret"
    /\ row' = <<Fmt2(calc.load)>>
    /\ pc' = "printed"
    /\ UNCHANGED <<done, handler, show_help, should_write_marker, first_reading,
                   stat, stat_file, fpos, num_cpus, cpu_data, heap, i,
                   current_time, header, last_row, rows, pending, markers,
                   errlog, exit_status, after_latch, calc, parsed, killed_at, samples,
                   unchanged, writes, ps_vars, gp_vars>>

NextCalc == CalcCall \/ CalcPrint

SpecCalc == InitCalc /\ [][NextCalc]_vars

----------------------------------------------------------------------------
(* parse_cpu_stats on its own: one call of either poller's function on an
   array of num_cpus elements *)

ParseFiles == Files \cup {FileMore, FileShortLast, FileNine}

InitParse ==
    /\ pc = "parse_call"
    /\ num_cpus \in 1..MaxCpus
    /\ stat \in ParseFiles
    /\ fpos \in {0, Len(stat)}
    /\ include_per_core \in BOOLEAN
    /\ \E old \in {ZeroStats, StatsOf(Seen)} :
         /\ cpu_data = [k \in 1..num_cpus |-> [current |-> old, previous |-> old]]
         /\ ps_cpu_data = IF include_per_core THEN [k \in 1..num_cpus |-> old]
                          ELSE <<>>
         /\ aggregate_stats = old
    /\ heap = "allocated"
    /\ stat_file = "open"
    /\ first_reading \in {0, 1}
    /\ done = 0
    /\ handler = TRUE
    /\ show_help = FALSE
    /\ should_write_marker = FALSE
    /\ i = 0
    /\ current_time = 0
    /\ header = <<>>
    /\ row = <<>>
    /\ last_row = <<>>
    /\ rows = 0
    /\ pending = 0
    /\ markers = 0
    /\ errlog = 0
    /\ exit_status = NoStatus
    /\ after_latch = 0
    /\ calc = [load |-> Zero, divided |-> FALSE]
    /\ parsed = 0
    /\ killed_at = ""
    /\ samples = 0
    /\ unchanged = FALSE
    /\ writes = {}
    /\ timestamp = <<>>
    /\ buf = <<>>
    /\ files_to_poll = <<>>
    /\ last_read = <<>>
    /\ labelCount = 0

\* parse_cpu_stats(stat_file, cpu_data, num_cpus) of cpu_load_poller.c
ParseCall ==
    /\ pc = "parse_call"
    /\ LET r == parse_cpu_stats(stat, cpu_data, num_cpus)
       IN  /\ cpu_data' = r.data
           /\ fpos' = r.pos
           /\ parsed' = r.ret
           /\ writes' = r.writes
    /\ samples' = samples + 1
    /\ pc' = "parse_ret"
    /\ UNCHANGED <<done, handler, show_help, should_write_marker, first_reading,
                   stat, stat_file, num_cpus, heap, i, current_time, header,
                   row, last_row, rows, pending, markers, errlog, exit_status,
                   after_latch, calc, killed_at, unchanged, ps_vars, gp_vars>>

\* parse_cpu_stats(stat_file, &aggregate_stats, cpu_data, num_cpus,
\*                 include_per_core) of proc_stat_poller.c; without -c its
\* main() leaves num_cpus 0 and cpu_data NULL
PsParseCall ==
    /\ pc = "parse_call"
    /\ LET n == IF include_per_core THEN num_cpus ELSE 0
           r == ps_parse_cpu_stats(stat, aggregate_stats, ps_cpu_data, n,
                                   include_per_core)
       IN  /\ aggregate_stats' = r.aggregate
           /\ ps_cpu_data' = r.data
           /\ parsed' = r.ret
           /\ writes' = r.writes
    /\ samples' = samples + 1
    /\ pc' = "ps_parse_ret"
    /\ UNCHANGED <<done, handler, show_help, should_write_marker, first_reading,
                   stat, stat_file, fpos, num_cpus, cpu_data, heap, i,
                   current_time, header, row, last_row, rows, pending, markers,
                   errlog, exit_status, after_latch, calc, killed_at, unchanged,
                   include_per_core, timestamp, gp_vars>>

NextParse == ParseCall \/ PsParseCall

SpecParse == InitParse /\ [][NextParse]_vars

----------------------------------------------------------------------------
(* Properties of calculate_cpu_load (SpecCalc) *)

RECURSIVE SumFields(_, _)
\* the sum of the first k counters of a snapshot, as an integer
SumFields(stats, k) ==
    IF k = 0 THEN 0 ELSE stats[Fields[k]] + SumFields(stats, k - 1)

\* the deltas of the call just made, as integers (current minus previous)
TotalDelta ==
    SumFields(cpu_data[1].current, Len(Fields))
        - SumFields(cpu_data[1].previous, Len(Fields))
IdleDelta ==
    (cpu_data[1].current.idle + cpu_data[1].current.iowait)
        - (cpu_data[1].previous.idle + cpu_data[1].previous.iowait)

\* both sums of ten counters fit the unsigned long long
TotalsFit ==
    /\ SumFields(cpu_data[1].current, Len(Fields)) < Modulus
    /\ SumFields(cpu_data[1].previous, Len(Fields)) < Modulus

Returned == pc \in {"calc_ret", "printed"}

\* the fraction q has the value 100 * (1 - idle_delta / total_delta)
IsLoadOf(q, idle_delta, total_delta) ==
    /\ q[2] # 0
    /\ q[1] * total_delta = 100 * (total_delta - idle_delta) * q[2]

\* C8 as stated: for any two snapshots with total_delta > 0 the call returns
\* 100 * (1 - idle_delta / total_delta), and total_delta = 100 with
\* idle_delta = 20 prints as 80.00
C8_LoadFormulaAnyDelta ==
    (Returned /\ TotalDelta > 0) =>
        /\ IsLoadOf(calc.load, IdleDelta, TotalDelta)
        /\ (TotalDelta = 100 /\ IdleDelta = 20 /\ pc = "printed") => row = <<8000>>

\* C8 amended: for any two snapshots with total_delta > 0 and idle_delta >= 0
\* (sums below the word's range) the call returns
\* 100 * (1 - idle_delta / total_delta); total_delta = 100 with
\* idle_delta = 20 prints as 80.00
C8_LoadFormula ==
    (Returned /\ TotalsFit /\ TotalDelta > 0 /\ IdleDelta >= 0) =>
        /\ IsLoadOf(calc.load, IdleDelta, TotalDelta)
        /\ (TotalDelta = 100 /\ IdleDelta = 20 /\ pc = "printed") => row = <<8000>>

C8_Witness ==
    /\ pc = "printed"
    /\ TotalDelta = 100
    /\ IdleDelta = 20
    /\ row = <<8000>>

\* the input of C9: user 110, idle 60, iowait 10 against user 100, idle 50,
\* iowait 10, every other counter equal
C9_Input ==
    /\ cpu_data[1].current.user = 110
    /\ cpu_data[1].current.idle = 60
    /\ cpu_data[1].current.iowait = 10
    /\ cpu_data[1].previous.user = 100
    /\ cpu_data[1].previous.idle = 50
    /\ cpu_data[1].previous.iowait = 10
    /\ \A f \in FieldSet \ {"user", "idle", "iowait"} :
         cpu_data[1].current[f] = cpu_data[1].previous[f]

\* C9 as stated: on that input the computed load is 0.0
C9_LoadIsZero ==
    (Returned /\ C9_Input) => calc.load[1] = 0

\* C9 amended: on that input total_delta is 20 and idle_delta is 10, and the
\* computed load is 50.0, printed as 50.00
C9_LoadIsFifty ==
    (Returned /\ C9_Input) =>
        /\ TotalDelta = 20
        /\ IdleDelta = 10
        /\ calc.load[1] = 50 * calc.load[2]
        /\ pc = "printed" => row = <<5000>>

C9_Witness ==
    /\ pc = "printed"
    /\ C9_Input
    /\ row = <<5000>>

\* C10: when total_delta is 0 the call returns exactly 0.0 without dividing,
\* whatever idle_delta is
C10_ZeroTotalDelta ==
    (Returned /\ TotalDelta = 0) =>
        /\ calc.load = Zero
        /\ ~calc.divided
        /\ pc = "printed" => row = <<0>>

C10_Witness ==
    /\ pc = "printed"
    /\ TotalDelta = 0
    /\ IdleDelta # 0
    /\ calc.load = Zero
    /\ ~calc.divided

\* C15: for a snapshot whose ten counters sum to less than 2^64,
\* get_total_time returns exactly the sum of all ten and get_idle_time exactly
\* idle + iowait
C15_SumsExact ==
    Returned =>
        \A s \in {cpu_data[1].current, cpu_data[1].previous} :
            SumFields(s, Len(Fields)) < Modulus =>
                /\ get_total_time(s) = SumFields(s, Len(Fields))
                /\ get_idle_time(s) = s.idle + s.iowait

\* a snapshot with several non-zero counters whose sum fits, next to one
\* whose sum does not fit and comes back wrapped
C15_Witness ==
    /\ Returned
    /\ cpu_data[1].current.guest_nice > 0 /\ cpu_data[1].current.iowait > 0
    /\ SumFields(cpu_data[1].current, Len(Fields)) = 185
    /\ get_total_time(cpu_data[1].current) = 185
    /\ SumFields(cpu_data[1].previous, Len(Fields)) >= Modulus
    /\ get_total_time(cpu_data[1].previous)
         = SumFields(cpu_data[1].previous, Len(Fields)) - Modulus

\* no counter of the current snapshot is below the previous one
NonDecreasing ==
    \A f \in FieldSet : cpu_data[1].current[f] >= cpu_data[1].previous[f]

\* the differences calculate_cpu_load works with
total_diff ==
    USub(get_total_time(cpu_data[1].current), get_total_time(cpu_data[1].previous))
idle_diff ==
    USub(get_idle_time(cpu_data[1].current), get_idle_time(cpu_data[1].previous))

\* the fraction q lies in [0, 100]
InRange(q) == q[2] > 0 /\ 0 <= q[1] /\ q[1] <= 100 * q[2]

\* C19 as stated: whenever no counter decreased between the two snapshots,
\* 0 <= idle_delta <= total_delta and the load lies in [0, 100]
C19_LoadInRangeAnySum ==
    (Returned /\ NonDecreasing) =>
        /\ 0 <= idle_diff /\ idle_diff <= total_diff
        /\ InRange(calc.load)
        /\ pc = "printed" => (0 <= row[1] /\ row[1] <= 10000)

\* C19 amended: whenever no counter decreased and both sums of ten counters
\* are below 2^64, 0 <= idle_delta <= total_delta and the load lies in
\* [0, 100]; when idle + iowait decreased while the total rose, the unsigned
\* difference wraps and the load is below 0
C19_LoadInRange ==
    /\ (Returned /\ NonDecreasing /\ TotalsFit) =>
          /\ 0 <= idle_diff /\ idle_diff <= total_diff
          /\ idle_diff = IdleDelta /\ total_diff = TotalDelta
          /\ InRange(calc.load)
          /\ pc = "printed" => (0 <= row[1] /\ row[1] <= 10000)
    /\ (Returned /\ TotalsFit /\ TotalDelta > 0 /\ IdleDelta < 0) =>
          /\ idle_diff = IdleDelta + Modulus
          /\ ~InRange(calc.load) /\ calc.load[1] < 0

\* counters that rose, part of the rise idle: a load strictly inside the range
C19_Witness ==
    /\ pc = "printed" /\ NonDecreasing /\ TotalsFit
    /\ 0 < IdleDelta /\ IdleDelta < TotalDelta
    /\ 0 < row[1] /\ row[1] < 10000

----------------------------------------------------------------------------
(* Properties of main() (Spec, FairSpec) *)

Initializing == {"fopen", "count", "calloc", "seed", "header", "copy", "sigaction"}
Sampling == {"loop", "clock", "marker", "parse", "time", "loads", "fflush",
             "first", "usleep"}
Terminating == {"free", "fclose", "exit"}

\* C1: every load of the first data row is 0.0, one per core, whatever the
\* counters were at the seed snapshot and at the first tick
C1_FirstRowZero ==
    /\ rows = 0 => \A k \in 2..Len(row) : row[k] = 0
    /\ rows = 1 => /\ Len(last_row) = 1 + num_cpus
                   /\ \A k \in 2..Len(last_row) : last_row[k] = 0

\* the first row is being printed, a load of it is out, and a core not yet
\* printed has counters that moved since the seed snapshot
C1_Witness ==
    /\ pc = "loads"
    /\ rows = 0
    /\ i >= 1
    /\ row[i + 1] = 0
    /\ \E k \in (i + 1)..num_cpus :
         calculate_cpu_load(cpu_data[k].current, cpu_data[k].previous).load[1] # 0

\* the lines of a counter source whose tag is cpu immediately followed by a
\* non-negative integer
PerCoreLines(lines) ==
    {k \in 1..Len(lines) : lines[k].tag = "cpu" /\ lines[k].id >= 0}

\* C2: topology discovery yields the number of per-core lines of the source
\* (2 for the lines cpu, cpu0, cpu1): the aggregate line is not counted
C2_CountIsPerCoreLines ==
    [][(pc = "count" /\ pc' \in {"calloc", "exited"}) =>
          num_cpus' = Cardinality(PerCoreLines(stat'))]_vars

\* C3: the handler only sets done, and in Sampling the signal does nothing
\* else; the loop is left only at its condition;
\* once done is set and control is at the sleep or past it no row is printed;
\* the process then exits 0 with every started row complete and flushed, the
\* array freed and the file closed
C3_SignalActsBetweenIterations ==
    [][/\ done' # done =>
            /\ done' = 1
            /\ UNCHANGED <<pc, handler, first_reading, stat, stat_file, fpos,
                           num_cpus, cpu_data, heap, i, current_time, header,
                           row, last_row, rows, pending, markers, errlog,
                           exit_status, parsed, killed_at, samples,
                   unchanged, writes, ps_vars, gp_vars>>
       /\ pc' = "free" => (pc \in {"loop", "free"} /\ done # 0)
       /\ pc' = "killed" => killed_at' \notin (Sampling \cup Terminating)
       /\ (done # 0 /\ pc \in {"usleep", "loop"} \cup Terminating \cup {"exited"}) =>
            /\ pc' \in {"usleep", "loop"} \cup Terminating \cup {"exited"}
            /\ rows' = rows
            /\ row' = row
       /\ (pc = "exit" /\ pc' = "exited") =>
            /\ exit_status' = 0
            /\ heap = "freed"
            /\ stat_file = "closed"
            /\ row = <<>>
            /\ rows = current_time
            /\ rows > 0 => Len(last_row) = 1 + num_cpus
            /\ pending' = 0
      ]_vars

\* the process has exited 0 after a signal that came after its last row
C3_Witness ==
    /\ pc = "exited"
    /\ exit_status = 0
    /\ done = 1
    /\ rows >= 1
    /\ after_latch = 0
    /\ heap = "freed"
    /\ stat_file = "closed"

\* C4: a termination signal delivered during Initializing or Sampling never
\* ends the process by the signal: the process goes on to Terminating
C4_SignalAlwaysClean ==
    pc = "killed" => killed_at \notin (Initializing \cup Sampling)

\* C5: once done is latched the process eventually exits with status 0, and
\* at most one row ends after the latch; while done is not latched every
\* iteration the loop admits ends one row
C5_LatchEndsLoop ==
    /\ (done # 0) ~> (pc = "exited" /\ exit_status = 0)
    /\ [](after_latch <= 1)
    /\ [](pc = "loop" => rows = current_time)
    /\ \A n \in 0..(MaxTicks - 1) :
         (pc = "loop" /\ done = 0 /\ rows = n) ~> (rows = n + 1 \/ done # 0)

\* done was latched while an iteration was in flight, and its row came out
C5_Witness ==
    /\ pc = "exited"
    /\ exit_status = 0
    /\ after_latch = 1
    /\ rows >= 2

\* C6: N does not change after discovery, the header has 1 + N columns and
\* so has every data row
C6_ColumnsFixed ==
    [][/\ pc \notin {"options", "fopen", "count"} => num_cpus' = num_cpus
       /\ header' # <<>> => Len(header') = 1 + num_cpus'
       /\ rows' # rows => (rows' = rows + 1 /\ Len(last_row') = 1 + num_cpus')
      ]_vars

\* a row is out on a tick where fewer than N lines parsed
C6_Witness ==
    /\ pc = "fflush"
    /\ parsed < num_cpus
    /\ Len(last_row) = Len(header)
    /\ Len(header) = 1 + num_cpus

\* the per-core lines of a source that carry all ten counters
FullCoreLines(lines) ==
    {k \in PerCoreLines(lines) : Len(lines[k].nums) >= Len(Fields)}

\* C7: after a parse pass, slot i holds the counters of the line tagged cpu i
C7_SlotHoldsItsCore ==
    [][(pc \in {"seed", "parse"} /\ pc' \in {"header", "time"}) =>
          \A k \in FullCoreLines(stat') :
             stat'[k].id < num_cpus =>
                cpu_data'[stat'[k].id + 1].current
                    = StatsOf(SubSeq(stat'[k].nums, 1, Len(Fields)))]_vars

----------------------------------------------------------------------------
(* Start-up failures *)

\* C11: each fatal start-up outcome ends the process with its own status,
\* 1 for help, 2 for the open failure, 3 for zero cores, 4 for the failed
\* allocation, none of them 0, and then nothing has been written to stdout
\* (no header, no row, nothing buffered) and the loop was never entered
C11_StartupFailures ==
    [][(pc # "exited" /\ pc' = "exited") =>
         /\ (exit_status' = 1) <=> (pc = "options" /\ show_help)
         /\ (exit_status' = 2) <=> (pc = "fopen")
         /\ (exit_status' = 3) <=> (pc = "count" /\ num_cpus' = 0)
         /\ (exit_status' = 4) <=> (pc = "calloc")
         /\ (exit_status' = 0) <=> (pc = "exit")
         /\ exit_status' \in 0..4
         /\ exit_status' # 0 =>
              /\ header' = <<>> /\ row' = <<>> /\ rows' = 0 /\ pending' = 0
              /\ current_time' = 0 /\ first_reading' = 1 /\ ~handler'
              /\ samples' = 0]_vars

\* the allocation failed: status 4, the file closed, stdout empty
C11_Witness ==
    /\ pc = "exited" /\ exit_status = 4 /\ stat_file = "closed"
    /\ header = <<>> /\ rows = 0 /\ num_cpus > 0

----------------------------------------------------------------------------
(* The trace marker *)

\* C12: the marker is written at most once, only with the enable-marker
\* option, and before parse_cpu_stats has read the counter source for the
\* first time; a marker write that fails is logged, and the step changes
\* nothing but the marker and the log, so the loop goes on to the same row
C12_MarkerOnceBeforeFirstSample ==
    [][/\ markers' # markers =>
            /\ markers = 0 /\ markers' = 1
            /\ should_write_marker
            /\ samples = 0
       /\ (pc = "marker" /\ pc' = "parse") =>
            /\ (should_write_marker /\ first_reading # 0 /\ markers' = markers)
                  => errlog' = errlog + 1
            /\ UNCHANGED <<done, handler, first_reading, stat, stat_file, fpos,
                           num_cpus, cpu_data, heap, i, current_time, header,
                           row, last_row, rows, pending, exit_status, parsed>>]_vars

----------------------------------------------------------------------------
(* The header row *)

----------------------------------------------------------------------------
(* The order of one iteration *)

\* the steps of the loop of main(), each with the step that follows it
IterationOrder ==
    {<<"loop", "clock">>, <<"clock", "marker">>, <<"marker", "parse">>,
     <<"parse", "time">>, <<"time", "loads">>, <<"loads", "fflush">>,
     <<"fflush", "first">>, <<"first", "usleep">>, <<"usleep", "loop">>,
     <<"loop", "free">>}

\* C14: an iteration goes timestamp, sample, loads, row, flush, sleep, in that
\* order; the counters are read with this row's timestamp already taken and
\* the row carries it; a finished row is flushed before the sleep, so nothing
\* is buffered while the loop sleeps
C14_IterationOrder ==
    [][/\ (pc \in Sampling /\ pc' # pc) => <<pc, pc'>> \in IterationOrder
       /\ samples' # samples /\ pc = "parse" =>
            /\ current_time = rows + 1
            /\ row = <<>>
       /\ (row' # row /\ row' # <<>>) =>
            /\ row'[1] = current_time
            /\ samples = current_time + 1
       /\ rows' # rows => (pc' = "fflush" /\ pending' > 0)
       /\ pc' = "usleep" => (pending' = 0 /\ row' = <<>>)]_vars

\* the loop sleeps after its first row with nothing left in the buffer
C14_Witness ==
    /\ pc = "usleep" /\ rows = 1 /\ pending = 0
    /\ last_row # <<>> /\ last_row[1] = current_time

----------------------------------------------------------------------------
(* The previous snapshot *)

\* C16: once the load of a core is computed its previous snapshot becomes
\* this tick's current one, on the first tick as on any other, so that at the
\* end of a tick previous equals current for every core and the next tick's
\* load is taken between that tick's snapshot and this one; on a tick after
\* the first whose source shows what the preceding tick read, every load is
\* the 0.0 of the zero-delta branch
C16_PreviousFollowsCurrent ==
    [][/\ (pc = "loads" /\ i' = i + 1) =>
            /\ cpu_data'[i + 1].previous = cpu_data[i + 1].current
            /\ cpu_data'[i + 1].current = cpu_data[i + 1].current
            /\ (unchanged /\ first_reading = 0) =>
                  /\ calculate_cpu_load(cpu_data[i + 1].current,
                                        cpu_data[i + 1].previous)
                       = [load |-> Zero, divided |-> FALSE]
                  /\ row' = Append(row, 0)
       /\ rows' # rows =>
            \A k \in 1..num_cpus : cpu_data'[k].previous = cpu_data'[k].current
       /\ (pc = "parse" /\ pc' = "time") =>
            \A k \in 1..num_cpus :
                /\ cpu_data[k].previous = cpu_data[k].current
                /\ cpu_data'[k].previous = cpu_data[k].previous]_vars

\* the second row is out, all 0.00, after a tick that read what the first
\* tick had read
C16_Witness ==
    /\ pc = "fflush" /\ rows = 2 /\ unchanged /\ first_reading = 0
    /\ \A k \in 2..Len(last_row) : last_row[k] = 0
    /\ cpu_data[1].current # ZeroStats
    /\ cpu_data[1].previous = cpu_data[1].current

----------------------------------------------------------------------------
(* The file position *)

\* C18: a call of parse_cpu_stats reads the source from its start wherever
\* earlier reads left the file: it accepts every full per-core line up to
\* num_cpus, also right after discovery has read the file to its end; a call
\* on the content the call before it read leaves every current snapshot as it
\* was and returns the same count; no call changes a previous snapshot
C18_SampleIgnoresPosition ==
    [][samples' # samples =>
         /\ parsed' = Min(num_cpus, Cardinality(FullCoreLines(stat')))
         /\ \A k \in 1..num_cpus : cpu_data'[k].previous = cpu_data[k].previous
         /\ pc = "seed" =>
              /\ fpos = Len(stat)
              /\ stat' = stat => parsed' = Cardinality(FullCoreLines(stat'))
         /\ (pc = "parse" /\ stat' = stat) =>
              /\ parsed' = parsed
              /\ \A k \in 1..num_cpus :
                    cpu_data'[k].current = cpu_data[k].current]_vars

\* the first tick has read what the seed call read, after discovery left the
\* file at its end: both per-core lines are parsed again
C18_Witness ==
    /\ pc = "time" /\ samples = 2 /\ unchanged
    /\ stat = FileA /\ fpos > 0 /\ parsed = 2
    /\ cpu_data[1].current = StatsOf(A0)
    /\ cpu_data[1].previous = StatsOf(A0)

----------------------------------------------------------------------------
(* Properties of parse_cpu_stats (SpecParse) *)

\* the counters a line hands over when sscanf converts the tag and all ten
\* fields of it
Accepted(line) == sscanf_cpu_stats(line, ZeroStats)

C20_WritesInBounds ==
    [][(pc = "parse_call" /\ pc' # pc) =>
         /\ writes' \subseteq 0..(num_cpus - 1)
         /\ parsed' <= num_cpus
         /\ DOMAIN cpu_data' = 1..num_cpus
         /\ DOMAIN ps_cpu_data' = DOMAIN ps_cpu_data
         /\ ~include_per_core => (pc' = "ps_parse_ret" => writes' = {})]_vars

\* proc_stat_poller with -c and two elements has met three full per-core
\* lines and stored into elements 0 and 1
C20_Witness ==
    /\ pc = "ps_parse_ret" /\ include_per_core /\ num_cpus = 2
    /\ Cardinality(FullCoreLines(stat)) = 3
    /\ writes = {0, 1} /\ parsed = 2
    /\ ps_cpu_data[2] = StatsOf(B1)

----------------------------------------------------------------------------
(* Leaving the loop *)

\* a tick that went wrong: the marker write was logged as failed, the read
\* returned nothing, or fewer than num_cpus lines were accepted
TroubledTick == errlog > 0 \/ stat = <<>> \/ parsed < num_cpus

\* C21: once the handler is installed the loop is left only at its condition
\* with done latched; no step of the loop sets the exit status, and a tick
\* whose marker write failed, whose read returned nothing or whose pass
\* accepted fewer than num_cpus lines goes on to emit its row of 1 + num_cpus
\* cells
C21_OnlySignalEndsLoop ==
    /\ [][/\ (pc \in Sampling /\ pc' \notin Sampling) =>
                (pc = "loop" /\ done # 0 /\ pc' = "free")
          /\ pc \in Sampling =>
                (exit_status = NoStatus /\ exit_status' = NoStatus)
          /\ exit_status' # exit_status => (pc' = "exited" /\ pc \notin Sampling)]_vars
    /\ (pc = "time" /\ TroubledTick)
          ~> (pc = "fflush" /\ Len(last_row) = 1 + num_cpus)

\* the first tick's marker write failed and its read returned nothing; its
\* row is out and the loop is still running
C21_Witness ==
    /\ pc = "usleep" /\ rows = 1 /\ errlog = 1
    /\ stat = <<>> /\ parsed = 0
    /\ Len(last_row) = 1 + num_cpus
    /\ exit_status = NoStatus /\ done = 0

----------------------------------------------------------------------------
(* Properties of main() of proc_stat_poller.c (SpecStat) *)

\* the lines of a counter source that start with "cpu "
AggregateLines(lines) ==
    {k \in 1..Len(lines) : lines[k].tag = "cpu" /\ lines[k].id = NoId}

\* the number of columns the options and the counted cores call for
Columns == 11 + 10 * (IF include_per_core THEN num_cpus ELSE 0)

\* C22: without -c there is no discovery and no array (num_cpus stays 0,
\* nothing is allocated, stored through or freed) and the header and every
\* row have 11 columns; with -c they have 11 + 10 * num_cpus columns for the
\* num_cpus counted at start-up; columns 2..11 of a row are the ten counters
\* of the aggregate line the tick's read showed
C22_Columns ==
    [][/\ header' # header => (header = <<>> /\ Len(header') = Columns)
       /\ rows' # rows =>
            /\ Len(last_row') = Columns /\ Len(last_row') = Len(header)
            /\ \A k \in AggregateLines(stat) :
                  Len(stat[k].nums) >= Len(Fields) =>
                     SubSeq(last_row', 2, 11)
                        = SubSeq(stat[k].nums, 1, Len(Fields))
       /\ ~include_per_core =>
            /\ num_cpus' = 0 /\ ps_cpu_data' = <<>> /\ heap' = "none"
            /\ writes' = {} /\ parsed' = 0
            /\ pc' \notin {"ps_count", "ps_calloc"}
       /\ (include_per_core /\ header # <<>>) =>
            /\ num_cpus' = num_cpus
            /\ Len(ps_cpu_data') = num_cpus]_vars

\* with -c and three counted lines: the second row has 41 columns and
\* carries the aggregate counters its tick read
C22_Witness ==
    /\ pc = "ps_fflush" /\ include_per_core /\ num_cpus = 3 /\ rows = 2
    /\ Len(header) = 41 /\ Len(last_row) = 41
    /\ stat = FileB /\ SubSeq(last_row, 2, 11) = AggB

----------------------------------------------------------------------------
(* Properties of main() of poller.c (SpecPoll) *)

\* the bytes d without their one trailing newline
StripOne(d) ==
    IF d # <<>> /\ d[Len(d)] = "\n" THEN SubSeq(d, 1, Len(d) - 1) ELSE d

\* C23: the cell written for a file is what this tick's read of that file
\* delivered, less one trailing newline, whatever the buffer held before;
\* a finished row has one cell per polled file after the time and no cell
\* holds a newline
C23_CellIsThisRead ==
    [][/\ (pc = "gp_files" /\ i' = i + 1) =>
            row' = Append(row, StripOne(last_read'))
       /\ rows' # rows =>
            /\ Len(last_row') = 1 + Len(files_to_poll)
            /\ \A k \in 2..Len(last_row') :
                  \A j \in 1..Len(last_row'[k]) : last_row'[k][j] # "\n"]_vars

====
